---- MODULE Spec2Model ----
(***************************************************************************)
(* Model of the protocol-ctf verifiers:                                    *)
(*   - cmd/chainmaker: the fixture generator (main, writeChain,            *)
(*     writeGenesis);                                                      *)
(*   - the in-process verifiers (checkFlag, runGeth, loadChain,            *)
(*     loadGenesis, blocksFromFile), in their two variants;                *)
(*   - the harness driver (checkFlag, makeDataDir) and the harness         *)
(*     package (ParseLogLevel, gethClient).                                *)
(* A chain file is a sequence of small integers.  A block is encoded as a  *)
(* list head followed by its payload (number, identifier).                 *)
(***************************************************************************)
EXTENDS Integers, Sequences, FiniteSets, TLC

\* ------------------------------------------------------------------ bounds

\* Longest chain file on disk, in stream elements.
MaxStreamLen == 6
\* Largest stream element (block numbers and block identifiers are elements).
MaxByte == 2

Bytes == 0 .. MaxByte

RECURSIVE SeqsUpTo(_, _)
SeqsUpTo(S, n) ==
  IF n = 0 THEN {<<>>}
  ELSE LET shorter == SeqsUpTo(S, n - 1)
       IN  shorter \cup {Append(s, x) : s \in {t \in shorter : Len(t) = n - 1}, x \in S}

\* The chain files the environment may hold.
Streams == SeqsUpTo(Bytes, MaxStreamLen)

\* Values of a field of the genesis description.
GenFieldVals == 0 .. 1
\* The genesis files the environment may hold (contents, when the file exists).
GenesisTexts == SeqsUpTo(GenFieldVals, 3)

\* ------------------------------------------------------------- error values

\* A Go error built by fmt.Errorf or returned by a library call: the format
\* (or the library's message), the integer arguments formatted into it and
\* the wrapped cause's message.
Error(f, a, c) == [fmt |-> f, args |-> a, cause |-> c]
Nil == Error("", <<>>, "")

\* ------------------------------------------------------- blocks and genesis

Block(n, h) == [number |-> n, id |-> h]

\* Payload size written in the list head of an encoded block.
ListHead == 2

\* types.Block.EncodeRLP: list head, then the payload.
EncodeRLP(b) == <<ListHead, b.number, b.id>>

\* rlp.Stream.Decode(&b) at element offset o (1-based) of stream s.
Decode(s, o) ==
  IF o > Len(s) THEN [res |-> "EOF", cause |-> "EOF", block |-> Block(0, 0), next |-> o]
  ELSE IF s[o] # ListHead
    THEN [res |-> "err", cause |-> "rlp: expected input list for types.extblock",
          block |-> Block(0, 0), next |-> o]
  ELSE IF o + ListHead > Len(s)
    THEN [res |-> "err", cause |-> "unexpected EOF", block |-> Block(0, 0), next |-> o]
  ELSE [res |-> "ok", cause |-> "", block |-> Block(s[o + 1], s[o + 2]),
        next |-> o + 1 + ListHead]

\* core.Genesis, reduced to its chain configuration and the fields that
\* determine the genesis block.
Genesis(c, d) == [config |-> c, difficulty |-> d]

\* Genesis.MarshalJSON
MarshalJSON(g) == <<g.config, g.difficulty>>

\* json.Unmarshal(chainConfig, &gen)
UnmarshalOk(text) == Len(text) = 2
Unmarshal(text) == Genesis(text[1], text[2])

\* Genesis.ToBlock: the genesis block is a pure function of the genesis.
ToBlock(g) == Block(0, g.difficulty)

\* ------------------------------------------------------------------- state

VARIABLES
  genesisFile,  \* genesis.json: [written, data]; unwritten = whatever is on disk
  chainFile,    \* chain.rlp:    [written, data]
  written,      \* chainmaker's local `blocks` after a completed run, else <<>>
  chainName,    \* blocksFromFile's chainfile: the name, split at its dots
  first,        \* what an earlier load of the same stream returned, if any
  variant,      \* which in-process verifier runs: "A" (dev flag) or "B" (log level)
  ipc,          \* position of the in-process verifier
  stack,        \* the node: "none", "created", "started", "closed"
  gen,          \* loadChain's gen
  stream,       \* content behind blocksFromFile's reader
  off,          \* read offset of the rlp stream
  i,            \* blocksFromFile's loop index
  blocks,       \* blocksFromFile's blocks
  chain,        \* what loadChain returned: [ok, blocks]
  backend,      \* whether eth.New created the backend
  imported,     \* -1 before InsertChain, else how many blocks the client imported
  queried,      \* whether BlockByNumber was issued
  answer,       \* the hash of the block BlockByNumber returned, -1 if none
  ret,          \* the error checkFlag / runGeth returned (Nil: none)
  out,          \* main's outcome: "", "Flag captured.", "exit 1", "panic"
  \* the harness package's gethClient and the operating system around it
  cmd,          \* g.cmd: [set, process, args]; process 0 is a nil Process
  procs,        \* per spawned client process: "running", "exited", "reaped"
  datadir,      \* the data directory: "absent", "empty", "genesis", "chain"
  cwd,          \* the working directory: "challenge" or "go-ethereum"
  built,        \* whether go-ethereum/build/bin/geth exists
  head,         \* block height of the chain in the data directory
  rpcUp,        \* the client process that answers JSON-RPC, 0 if none
  cpc,          \* position inside a gethClient method: "idle", "kill", "wait",
                \* "remove" (Close), "poll" (Running), "panic"
  calls,        \* the calls and commands made so far, in order: [op, ok], and
                \* [op, ok, args] for a command run by runCmd
  ctxDone,      \* whether the context handed to Running is done
  runningRet,   \* what client.Running returned: "none", "true", "false"
  args,         \* g.args, the ClientArgs: [FakePow, LogLevel]
  \* the harness driver
  dpc,          \* position of the driver's checkFlag
  defers,       \* checkFlag's deferred calls, last registered first
  skip,         \* the -skip-compile flag
  lvlStr,       \* the -loglevel flag
  dnum,         \* the block number the head query returned, -1 if none
  dret,         \* the error checkFlag returned (Nil: none)
  dout          \* main's outcome: "", "Flag captured.", "exit 1"

fileVars == <<genesisFile, chainFile, written, chainName, first>>
loadVars == <<gen, stream, off, i, blocks, chain>>
nodeVars == <<stack, backend, imported, queried, answer>>
inprocVars == <<variant, ipc, ret, out>>
clientVars == <<cmd, procs, datadir, cwd, built, head, rpcUp, cpc, calls, ctxDone, runningRet>>
driverVars == <<dpc, defers, skip, lvlStr, dnum, dret, dout>>
harnessVars == <<clientVars, driverVars, args>>
inprocAll == <<fileVars, loadVars, nodeVars, inprocVars>>
vars == <<fileVars, loadVars, nodeVars, inprocVars, harnessVars>>

Unwritten == [written |-> FALSE, data |-> <<>>]
NoChain == [ok |-> FALSE, blocks |-> <<>>]

\* Hash of block 1 that the in-process verifiers expect.
ExpectedHash == 1

\* ------------------------------------------------------------- chainmaker

\* Number of blocks chainmaker asks core.GenerateChain for.
NumGenBlocks == 1

\* core.GenerateChain(config, parent, engine, db, n, gen): n blocks on top of
\* parent, numbered parent.number+1 .. parent.number+n; ids gives the hashes.
GenerateChain(parent, n, ids) == [k \in 1 .. n |-> Block(parent.number + k, ids[k])]

RECURSIVE Concat(_)
Concat(ss) == IF ss = <<>> THEN <<>> ELSE Head(ss) \o Concat(Tail(ss))

\* writeChain: every block of the list is encoded to the file, in order.
WriteChainData(bs) == Concat([k \in 1 .. Len(bs) |-> EncodeRLP(bs[k])])

\* chainmaker's main: build the genesis and the chain, prepend the genesis
\* block to the block list, write genesis file and chain file.  A failed
\* writeGenesis exits before the chain is written.
ChainmakerMain ==
  /\ ipc = "main"
  /\ ~chainFile.written /\ ~genesisFile.written
  /\ \E d \in GenFieldVals, ids \in [1 .. NumGenBlocks -> Bytes],
        genOk \in BOOLEAN, chainOk \in BOOLEAN :
       LET gspec   == Genesis(1, d)
           genesis == ToBlock(gspec)
           bs      == <<genesis>> \o GenerateChain(genesis, NumGenBlocks, ids)
       IN  /\ genesisFile' = IF genOk THEN [written |-> TRUE, data |-> MarshalJSON(gspec)]
                             ELSE genesisFile
           /\ chainFile' = IF genOk /\ chainOk
                           THEN [written |-> TRUE, data |-> WriteChainData(bs)]
                           ELSE chainFile
           /\ written' = IF genOk /\ chainOk THEN bs ELSE written
  /\ UNCHANGED <<chainName, first, loadVars, nodeVars, inprocVars, harnessVars>>

\* ----------------------------------------------------- names and gzip files

\* The chain file name runGeth passes to loadChain.
ChainRlp == <<"chain", ".rlp">>

\* No earlier load.
NoLoad == [done |-> FALSE, ok |-> FALSE, blocks |-> <<>>, err |-> Nil]

\* Faulty variant: no name is taken for a compressed file.
HasSuffix_Never(name, suffix) == FALSE

\* strings.HasSuffix(chainfile, ".gz"), on a name split at its dots.
HasSuffix(name, suffix) == name # <<>> /\ name[Len(name)] = suffix

\* First byte of a gzip member.
GzMagic == 1

\* A gzip file made of stream s: the header, the deflated bytes and the
\* trailer with the size of s.
Gzip(s) ==
  <<GzMagic>> \o [k \in 1 .. Len(s) |-> (s[k] + 1) % (MaxByte + 1)]
              \o <<Len(s) % (MaxByte + 1)>>

\* gzip.NewReader: reads and checks the header.
GzipNewReader(data) ==
  IF data = <<>> THEN Error("EOF", <<>>, "")
  ELSE IF data[1] # GzMagic THEN Error("gzip: invalid header", <<>>, "")
  ELSE Nil

\* What the gzip reader yields for a file written by a gzip writer: the
\* bytes between header and trailer, inflated.
GzipRead(data) ==
  [k \in 1 .. Len(data) - 2 |-> (data[k + 1] + MaxByte) % (MaxByte + 1)]

\* blocksFromFile: the reader the rlp stream is put on.
ReaderError(name, data) == IF HasSuffix(name, ".gz") THEN GzipNewReader(data) ELSE Nil
ReaderData(name, data) == IF HasSuffix(name, ".gz") THEN GzipRead(data) ELSE data

\* ------------------------------------------------- the in-process verifiers

\* What a read of file f finds: the content chainmaker wrote, or else
\* whatever the environment holds (no file, or any content of texts).
OnDisk(f, texts) ==
  IF f.written THEN {[exists |-> TRUE, data |-> f.data]}
  ELSE {[exists |-> FALSE, data |-> <<>>]} \cup {[exists |-> TRUE, data |-> t] : t \in texts}

\* checkFlag returns e to main: main prints "Flag captured." on nil and
\* exits with status 1 otherwise.
Return(e) ==
  /\ ret' = e
  /\ out' = IF e = Nil THEN "Flag captured." ELSE "exit 1"
  /\ ipc' = "exit"

\* main: variant B parses the log level before checkFlag and exits on failure.
Main ==
  /\ ipc = "main"
  /\ \E lvlOk \in BOOLEAN :
       IF variant = "B" /\ ~lvlOk
       THEN ipc' = "exit" /\ out' = "exit 1"
       ELSE ipc' = "node.New" /\ out' = out
  /\ UNCHANGED <<fileVars, loadVars, nodeVars, variant, ret, harnessVars>>

\* runGeth: node.New
NodeNew ==
  /\ ipc = "node.New"
  /\ \E ok \in BOOLEAN :
       IF ok
       THEN stack' = "created" /\ ipc' = "loadGenesis" /\ UNCHANGED <<ret, out>>
       ELSE stack' = stack /\ Return(Error("node.New", <<>>, ""))
  /\ UNCHANGED <<fileVars, loadVars, backend, imported, queried, answer, variant, harnessVars>>

\* Faulty variant: the blocks decoded before the failure are handed on.
LoadFail_KeepsBlocks(e) ==
  /\ stack' = "closed"
  /\ chain' = [ok |-> FALSE, blocks |-> blocks]
  /\ Return(e)

\* Faulty variant: the error is returned with the stack left open.
LoadFail_StackLeftOpen(e) ==
  /\ stack' = stack
  /\ chain' = [ok |-> FALSE, blocks |-> <<>>]
  /\ Return(e)

\* runGeth, when loadChain returned an error: close the stack, return the error.
LoadFail(e) ==
  /\ stack' = "closed"
  /\ chain' = NoChain
  /\ Return(e)

\* loadChain/loadGenesis: read and parse the genesis file.
LoadGenesis ==
  /\ ipc = "loadGenesis"
  /\ \E f \in OnDisk(genesisFile, GenesisTexts) :
       IF ~f.exists
       THEN LoadFail(Error("open genesis.json: no such file or directory", <<>>, ""))
            /\ gen' = gen
       ELSE IF ~UnmarshalOk(f.data)
       THEN LoadFail(Error("json: cannot unmarshal", <<>>, "")) /\ gen' = gen
       ELSE /\ gen' = Unmarshal(f.data)
            /\ ipc' = "open"
            /\ UNCHANGED <<stack, chain, ret, out>>
  /\ UNCHANGED <<fileVars, stream, off, i, blocks, backend, imported, queried, answer, variant,
                 harnessVars>>

\* Faulty variant: the list starts empty.
InitialBlocks_Empty(gblock) == <<>>

\* blocksFromFile: blocks = make([]*types.Block, 1); blocks[0] = gblock
InitialBlocks(gblock) == <<gblock>>

\* blocksFromFile up to the loop: open the chain file, put a gzip reader on
\* it when the name ends in ".gz", start the rlp stream and the list with
\* the genesis block.
OpenChain ==
  /\ ipc = "open"
  /\ \E f \in OnDisk(chainFile, Streams) :
       IF ~f.exists
       THEN LoadFail(Error("open chain.rlp: no such file or directory", <<>>, ""))
            /\ UNCHANGED <<stream, off, i, blocks>>
       ELSE IF ReaderError(chainName, f.data) # Nil
       THEN LoadFail(ReaderError(chainName, f.data))
            /\ UNCHANGED <<stream, off, i, blocks>>
       ELSE /\ stream' = ReaderData(chainName, f.data)
            /\ off' = 1
            /\ i' = 0
            /\ blocks' = InitialBlocks(ToBlock(gen))
            /\ ipc' = "decode"
            /\ UNCHANGED <<stack, chain, ret, out>>
  /\ UNCHANGED <<fileVars, gen, backend, imported, queried, answer, variant, harnessVars>>

\* Block.NumberU64: the number a block reports.
NumberU64(b) == b.number

\* Faulty variant: the number is compared with the index instead of index+1.
WrongNumber_OffByOne(b, idx) == NumberU64(b) # idx

\* blocksFromFile: b.NumberU64() != uint64(i+1)
WrongNumber(b, idx) == NumberU64(b) # idx + 1

\* Faulty variant: the error reports the one-based position.
WrongNumberError_OneBased(idx, b) ==
  Error("block at index %d has wrong number %d", <<idx + 1, NumberU64(b)>>, "")

\* blocksFromFile: the error of a block with the wrong number.
WrongNumberError(idx, b) ==
  Error("block at index %d has wrong number %d", <<idx, NumberU64(b)>>, "")

\* Faulty variant: the decode error reports the one-based position.
DecodeError_OneBased(idx, cause) == Error("at block index %d: %v", <<idx + 1>>, cause)

\* blocksFromFile: the error of a failed decode.
DecodeError(idx, cause) == Error("at block index %d: %v", <<idx>>, cause)

\* blocksFromFile: one iteration of the loop; on EOF blocksFromFile and
\* loadChain return the chain.
DecodeBlock ==
  /\ ipc = "decode"
  /\ LET r == Decode(stream, off)
     IN  IF r.res = "EOF"
         THEN /\ chain' = [ok |-> TRUE, blocks |-> blocks]
              /\ ipc' = "eth.New"
              /\ UNCHANGED <<off, i, blocks, stack, ret, out>>
         ELSE IF r.res = "err"
         THEN LoadFail(DecodeError(i, r.cause)) /\ UNCHANGED <<off, i, blocks>>
         ELSE IF WrongNumber(r.block, i)
         THEN LoadFail(WrongNumberError(i, r.block)) /\ UNCHANGED <<off, i, blocks>>
         ELSE /\ blocks' = Append(blocks, r.block)
              /\ i' = i + 1
              /\ off' = r.next
              /\ UNCHANGED <<chain, stack, ipc, ret, out>>
  /\ UNCHANGED <<fileVars, gen, stream, backend, imported, queried, answer, variant, harnessVars>>

\* runGeth: eth.New with the loaded genesis; chain.genesis.Config is
\* dereferenced for the network id, a nil Config panics.
EthNew ==
  /\ ipc = "eth.New"
  /\ IF gen.config = 0
     THEN ipc' = "exit" /\ out' = "panic" /\ UNCHANGED <<stack, backend, ret>>
     ELSE \E ok \in BOOLEAN :
            IF ok
            THEN backend' = TRUE /\ ipc' = "InsertChain" /\ UNCHANGED <<stack, ret, out>>
            ELSE stack' = "closed" /\ backend' = backend /\ Return(Error("eth.New", <<>>, ""))
  /\ UNCHANGED <<fileVars, loadVars, imported, queried, answer, variant, harnessVars>>

\* runGeth: InsertChain(chain.blocks[1:]); the client under test accepts a
\* prefix of the blocks, a failure is only logged.
InsertChain ==
  /\ ipc = "InsertChain"
  /\ \E n \in 0 .. Len(chain.blocks) - 1 : imported' = n
  /\ ipc' = "stack.Start"
  /\ UNCHANGED <<fileVars, loadVars, stack, backend, queried, answer, variant, ret, out,
                 harnessVars>>

\* runGeth: stack.Start
StackStart ==
  /\ ipc = "stack.Start"
  /\ \E ok \in BOOLEAN :
       IF ok
       THEN stack' = "started" /\ ipc' = "console" /\ UNCHANGED <<ret, out>>
       ELSE stack' = "closed" /\ Return(Error("stack.Start", <<>>, ""))
  /\ UNCHANGED <<fileVars, loadVars, backend, imported, queried, answer, variant, harnessVars>>

\* checkFlag: the console, when the dev/console flag is set.
Console ==
  /\ ipc = "console"
  /\ \E devMode \in BOOLEAN, ok \in BOOLEAN :
       IF devMode /\ ~ok
       THEN Return(Error("Failed to attach to geth: %v", <<>>, "attach"))
       ELSE ipc' = "Attach" /\ UNCHANGED <<ret, out>>
  /\ UNCHANGED <<fileVars, loadVars, nodeVars, variant, harnessVars>>

\* checkFlag: what is returned when node.Attach fails.
AttachFailed == Nil

\* checkFlag: node.Attach
Attach ==
  /\ ipc = "Attach"
  /\ \E ok \in BOOLEAN :
       IF ok
       THEN ipc' = "BlockByNumber" /\ UNCHANGED <<ret, out>>
       ELSE Return(AttachFailed)
  /\ UNCHANGED <<fileVars, loadVars, nodeVars, variant, harnessVars>>

\* ethclient.BlockByNumber: the error of a block the node does not have or of
\* a failed request.
HeadRPCError == Error("not found", <<>>, "")

\* checkFlag: the error returned when BlockByNumber fails.
HeadQueryError(v, e) == IF v = "B" THEN Error("couldn't load head block", <<>>, "") ELSE e

\* checkFlag: block.Hash() != common.HexToHash(...)
HashMismatch(b) == b.id # ExpectedHash

\* checkFlag: BlockByNumber(1) and the comparison with the expected hash.
BlockByNumber ==
  /\ ipc = "BlockByNumber"
  /\ queried' = TRUE
  /\ \E rpcOk \in BOOLEAN :
       IF rpcOk /\ imported >= 1
       THEN /\ answer' = chain.blocks[2].id
            /\ IF HashMismatch(chain.blocks[2])
               THEN Return(Error("could not load chain", <<>>, ""))
               ELSE Return(Nil)
       ELSE /\ answer' = answer
            /\ Return(HeadQueryError(variant, HeadRPCError))
  /\ UNCHANGED <<fileVars, loadVars, stack, backend, imported, variant, harnessVars>>

\* What blocksFromFile (and with it loadChain) has returned.
Loaded == [done |-> TRUE, ok |-> chain.ok, blocks |-> chain.blocks, err |-> ret]

\* After a load has returned, the stream it read is written through gzip to
\* the file of the same name with ".gz" appended, and blocksFromFile is
\* called on that file with the same genesis block.
LoadCompressed ==
  /\ ~first.done
  /\ chain.ok \/ (stack = "closed" /\ ipc = "exit")
  /\ first' = Loaded
  /\ chainName' = Append(chainName, ".gz")
  /\ chainFile' = [written |-> TRUE, data |-> Gzip(stream)]
  /\ stream' = <<>>
  /\ off' = 1
  /\ i' = 0
  /\ blocks' = <<>>
  /\ chain' = NoChain
  /\ stack' = "created"
  /\ ret' = Nil
  /\ out' = ""
  /\ ipc' = "open"
  /\ UNCHANGED <<genesisFile, written, gen, backend, imported, queried, answer, variant,
                 harnessVars>>

\* ------------------------------------------------------ the harness package

\* The -loglevel values tried.
LevelInputs == {"none", "error", "warn", "info", "debug", "trace", "Trace", "loud"}

\* ParseLogLevel: the switch over the level names.
ParseLogLevel(s) ==
  CASE s = "none"  -> [ok |-> TRUE, level |-> 0]
    [] s = "error" -> [ok |-> TRUE, level |-> 1]
    [] s = "warn"  -> [ok |-> TRUE, level |-> 2]
    [] s = "info"  -> [ok |-> TRUE, level |-> 3]
    [] s = "debug" -> [ok |-> TRUE, level |-> 4]
    [] s = "Trace" -> [ok |-> TRUE, level |-> 5]
    [] OTHER       -> [ok |-> FALSE, level |-> 0]

\* newGethClient: no command yet.
NoCmd == [set |-> FALSE, process |-> 0, args |-> <<>>]

\* The zero ClientArgs, and the ClientArgs a caller may hand to NewClient.
NoArgs == [FakePow |-> FALSE, LogLevel |-> 0]
ClientArgs == [FakePow : BOOLEAN, LogLevel : {0, 3}]

\* Faulty variant: the option is added behind the others.
maybePrepend_Appends(shouldAdd, options, maybe) ==
  IF shouldAdd THEN options \o maybe ELSE options

\* maybePrepend: append(maybe, options...) when shouldAdd.
maybePrepend(shouldAdd, options, maybe) ==
  IF shouldAdd THEN maybe \o options ELSE options

\* fmt.Sprintf("--verbosity=%d", g.args.LogLevel)
Verbosity(level) ==
  <<"--verbosity=0", "--verbosity=1", "--verbosity=2", "--verbosity=3", "--verbosity=4",
    "--verbosity=5">>[level + 1]

\* Init: the options of geth init and of geth import.
InitOptions(a) == <<"--datadir=datadir", Verbosity(a.LogLevel), "init", "genesis.json">>
ImportOptions(a) == <<"--datadir=datadir", Verbosity(a.LogLevel), "import", "chain.rlp">>

\* Start: the options of the client process.
StartOptions(a) ==
  <<"--datadir=datadir", Verbosity(a.LogLevel), "--port=33333", "--nodiscover", "--http",
    "--http.api=admin,eth,debug", "--http.addr=localhost", "--http.port=8545">>

\* runCmd on the geth binary: the command, its outcome and its arguments.
Exec(op, ok, argv) == [op |-> op, ok |-> ok, args |-> argv]

Call(op, ok) == [op |-> op, ok |-> ok]

\* Compile: what it returns, given whether os.Getwd and the build succeed.
CompileResult(getwdOk, buildOk) ==
  IF ~getwdOk THEN Error("getwd", <<>>, "")
  ELSE IF ~buildOk THEN Error("exit status 1", <<>>, "go run build/ci.go")
  ELSE Nil

\* Compile: the working directory after os.Chdir(g.path), in which the
\* build command runs.
BuildDir(dir) == "go-ethereum"

\* Faulty variant: the working directory is not changed back.
CwdAfterCompile_NoDefer(dir, during) == during

\* Compile: the working directory once the deferred os.Chdir(dir) has run,
\* dir being what os.Getwd returned and during the directory of the build.
CwdAfterCompile(dir, during) == dir

\* Compile: the build command run by runCmd, and the directory it runs in.
GoRun(ok, dir) ==
  [op |-> "go run", ok |-> ok, args |-> <<"run", "build/ci.go", "install", "./cmd/geth">>,
   dir |-> dir]

\* Compile: os.Getwd (a failure returns at once), change to the project,
\* build, change back (deferred).
GethCompile(getwdOk, buildOk) ==
  /\ cwd' = IF getwdOk THEN CwdAfterCompile(cwd, BuildDir(cwd)) ELSE cwd
  /\ built' = (built \/ (getwdOk /\ buildOk))
  /\ calls' = calls \o (IF getwdOk THEN <<GoRun(buildOk, BuildDir(cwd))>> ELSE <<>>)
                    \o <<Call("Compile", getwdOk /\ buildOk)>>
  /\ UNCHANGED <<cmd, procs, datadir, head, rpcUp, cpc, ctxDone, runningRet>>

\* Init: the commands it runs and how they end.  The geth binary must exist
\* to be run; the chain import runs only after the genesis import succeeded.
InitCommands(genOk, impOk) ==
  LET initArgv   == maybePrepend(args.FakePow, InitOptions(args), <<"--fakepow">>)
      importArgv == maybePrepend(args.FakePow, ImportOptions(args), <<"--fakepow">>)
  IN  IF built /\ genOk
      THEN <<Exec("geth init", TRUE, initArgv), Exec("geth import", impOk, importArgv)>>
      ELSE <<Exec("geth init", FALSE, initArgv)>>

\* Init: what it returns.
InitResult(genOk, impOk) ==
  LET cs == InitCommands(genOk, impOk)
  IN  IF cs[Len(cs)].ok THEN Nil ELSE Error("exit status 1", <<>>, cs[Len(cs)].op)

\* Init: geth init, then geth import; h is the height the import reaches.
GethInit(genOk, impOk, h) ==
  LET cs == InitCommands(genOk, impOk)
      e  == InitResult(genOk, impOk)
  IN  /\ datadir' = IF e = Nil THEN "chain" ELSE IF cs[1].ok THEN "genesis" ELSE datadir
      /\ head' = IF e = Nil THEN h ELSE head
      /\ calls' = calls \o cs \o <<Call("Init", e = Nil)>>
      /\ UNCHANGED <<cmd, procs, cwd, built, rpcUp, cpc, ctxDone, runningRet>>

\* Start: whether g.cmd.Start() spawns the process.
Spawned(spawnOk) == built /\ spawnOk

\* Start: what it returns.
StartResult(spawnOk) ==
  IF Spawned(spawnOk) THEN Nil ELSE Error("fork/exec", <<>>, "go-ethereum/build/bin/geth")

\* Faulty variant: a process is left running although Start returns an error.
ProcsAfterStart_Always(spawnOk) == Append(procs, "running")

\* Faulty variant: the command is run to its end, as exec.Cmd.Run does.
ProcsAfterStart_Waits(spawnOk) == IF Spawned(spawnOk) THEN Append(procs, "reaped") ELSE procs

\* Start: the processes there are once g.cmd.Start() has returned.
ProcsAfterStart(spawnOk) == IF Spawned(spawnOk) THEN Append(procs, "running") ELSE procs

\* Start: g.cmd is replaced by a new command, which is then started; the
\* command's Process stays nil when the spawn fails.
GethStart(spawnOk) ==
  /\ cmd' = [set |-> TRUE, process |-> IF Spawned(spawnOk) THEN Len(procs) + 1 ELSE 0,
             args |-> maybePrepend(args.FakePow, StartOptions(args), <<"--fakepow">>)]
  /\ procs' = ProcsAfterStart(spawnOk)
  /\ calls' = Append(calls, Call("Start", Spawned(spawnOk)))
  /\ UNCHANGED <<datadir, cwd, built, head, rpcUp, cpc, ctxDone, runningRet>>

\* Close: g.cmd.Process.Kill() dereferences g.cmd and g.cmd.Process.
KillPanics(c) == ~c.set \/ c.process = 0

\* Faulty variant: the data directory is removed without waiting.
CloseAfter_SkipsWait(step) == IF step = "kill" THEN "remove" ELSE "idle"

\* Close: the statement that follows each of its statements.
CloseAfter(step) ==
  CASE step = "kill" -> "wait"
    [] step = "wait" -> "remove"
    [] step = "remove" -> "idle"

\* Close, first statement: kill the process of g.cmd.
CloseKill ==
  /\ cpc = "kill"
  /\ IF KillPanics(cmd)
     THEN cpc' = "panic" /\ UNCHANGED <<procs, rpcUp>>
     ELSE /\ procs' = IF procs[cmd.process] = "running"
                      THEN [procs EXCEPT ![cmd.process] = "exited"]
                      ELSE procs
          /\ rpcUp' = IF rpcUp = cmd.process THEN 0 ELSE rpcUp
          /\ cpc' = CloseAfter("kill")
  /\ UNCHANGED <<cmd, datadir, cwd, built, head, calls, ctxDone, runningRet>>
  /\ UNCHANGED <<driverVars, inprocAll, args>>

\* Close, second statement: g.cmd.Wait() returns once the process has exited
\* and reaps it; a second Wait only returns an error.
CloseWait ==
  /\ cpc = "wait"
  /\ procs[cmd.process] # "running"
  /\ procs' = [procs EXCEPT ![cmd.process] = "reaped"]
  /\ cpc' = CloseAfter("wait")
  /\ UNCHANGED <<cmd, datadir, cwd, built, head, rpcUp, calls, ctxDone, runningRet>>
  /\ UNCHANGED <<driverVars, inprocAll, args>>

\* Close, third statement: os.RemoveAll(g.args.DataDir); Close returns nil.
CloseRemove ==
  /\ cpc = "remove"
  /\ datadir' = "absent"
  /\ calls' = Append(calls, Call("Close", TRUE))
  /\ cpc' = CloseAfter("remove")
  /\ UNCHANGED <<cmd, procs, cwd, built, head, rpcUp, ctxDone, runningRet>>
  /\ UNCHANGED <<driverVars, inprocAll, args>>

\* Running returns r to its caller.
RunningReturn(r) ==
  /\ runningRet' = (IF r THEN "true" ELSE "false")
  /\ calls' = Append(calls, Call("Running", r))
  /\ cpc' = "idle"

\* Faulty variant: the loop never looks at the context.
SelectDone_Never(done) == FALSE

\* Running, the select at the head of the loop: whether the case
\* <-ctx.Done() is taken rather than the default case.
SelectDone(done) == done

\* Running, head of the loop: a done context returns false, otherwise the
\* default case starts an attempt with the dial.
RunningSelect ==
  /\ cpc = "poll"
  /\ IF SelectDone(ctxDone)
     THEN RunningReturn(FALSE)
     ELSE cpc' = "dial" /\ UNCHANGED <<runningRet, calls>>
  /\ UNCHANGED <<cmd, procs, datadir, cwd, built, head, rpcUp, ctxDone>>
  /\ UNCHANGED <<driverVars, inprocAll, args>>

\* Running: where the loop goes after ethclient.DialContext; an error means
\* continue.
AfterDial(dialOk) == IF dialOk THEN "call" ELSE "poll"

\* Running, default case: ethclient.DialContext(ctx, g.HttpAddr()).
RunningDial ==
  /\ cpc = "dial"
  /\ \E dialOk \in BOOLEAN : cpc' = AfterDial(dialOk)
  /\ UNCHANGED <<cmd, procs, datadir, cwd, built, head, rpcUp, calls, ctxDone, runningRet>>
  /\ UNCHANGED <<driverVars, inprocAll, args>>

\* Faulty variant: any outcome of the block-height call counts as ready.
Ready_Always(ok) == TRUE

\* Running: err == nil after client.BlockNumber(ctx).
Ready(ok) == ok

\* Running, default case: client.BlockNumber(ctx).  The call is answered
\* only by a serving client and under a context not done; an answer returns
\* true, an error goes round the loop again.
RunningBlockNumber ==
  /\ cpc = "call"
  /\ \E rpcOk \in BOOLEAN :
       IF Ready(rpcOk /\ rpcUp # 0 /\ ~ctxDone)
       THEN RunningReturn(TRUE)
       ELSE cpc' = "poll" /\ UNCHANGED <<runningRet, calls>>
  /\ UNCHANGED <<cmd, procs, datadir, cwd, built, head, rpcUp, ctxDone>>
  /\ UNCHANGED <<driverVars, inprocAll, args>>

\* Running is inside its loop.
InRunning == cpc \in {"poll", "dial", "call"}

\* ------------------------------------------- the client process and the clock

\* A running client process starts answering JSON-RPC on the fixed port,
\* exits on its own, or creates the data directory it was given.
ProcStep ==
  /\ \E p \in DOMAIN procs, what \in {"ready", "exit", "write"} :
       /\ procs[p] = "running"
       /\ procs' = IF what = "exit" THEN [procs EXCEPT ![p] = "exited"] ELSE procs
       /\ rpcUp' = IF what = "ready" /\ rpcUp = 0 THEN p
                   ELSE IF what = "exit" /\ rpcUp = p THEN 0
                   ELSE rpcUp
       /\ datadir' = IF what = "write" /\ datadir = "absent" THEN "genesis" ELSE datadir
  /\ UNCHANGED <<cmd, cwd, built, head, cpc, calls, ctxDone, runningRet>>
  /\ UNCHANGED <<driverVars, inprocAll, args>>

\* The deadline of the context in use fires.
DeadlineFires ==
  /\ InRunning \/ dpc \in {"Dial", "BlockNumber"}
  /\ ~ctxDone
  /\ ctxDone' = TRUE
  /\ UNCHANGED <<cmd, procs, datadir, cwd, built, head, rpcUp, cpc, calls, runningRet>>
  /\ UNCHANGED <<driverVars, inprocAll, args>>

\* ------------------------------------------------------- the harness driver

\* checkFlag returns e: the deferred calls run next.
DReturn(e) == dret' = e /\ dpc' = "return"

\* checkFlag: ParseLogLevel
DParseLogLevel ==
  /\ dpc = "ParseLogLevel"
  /\ IF ParseLogLevel(lvlStr).ok
     THEN dpc' = "makeDataDir" /\ dret' = dret
     ELSE DReturn(Error("unknown log level: %s", <<>>, lvlStr))
  /\ UNCHANGED <<defers, skip, lvlStr, dnum, dout, clientVars, inprocAll, args>>

\* Faulty variant: the removal of the data directory is not deferred.
DefersAfterMakeDataDir_None(ds) == ds

\* checkFlag: defer os.RemoveAll("datadir")
DefersAfterMakeDataDir(ds) == <<"RemoveAll">> \o ds

\* checkFlag: makeDataDir (RemoveAll, then Mkdir) and the deferred removal.
DMakeDataDir ==
  /\ dpc = "makeDataDir"
  /\ \E rmOk \in BOOLEAN, mkOk \in BOOLEAN :
       /\ datadir' = IF ~rmOk THEN datadir ELSE IF mkOk THEN "empty" ELSE "absent"
       /\ calls' = Append(calls, Call("makeDataDir", rmOk /\ mkOk))
       /\ IF rmOk /\ mkOk
          THEN /\ defers' = DefersAfterMakeDataDir(defers)
               /\ dpc' = "NewClient"
               /\ dret' = dret
          ELSE /\ defers' = defers
               /\ DReturn(Error(IF rmOk THEN "mkdir datadir" ELSE "unlinkat datadir", <<>>, ""))
  /\ UNCHANGED <<cmd, procs, cwd, built, head, rpcUp, cpc, ctxDone, runningRet>>
  /\ UNCHANGED <<skip, lvlStr, dnum, dout, inprocAll, args>>

\* checkFlag: the ClientArgs it builds (FakePow: true, LogLevel: logLevel).
DriverArgs(logLevel) == [FakePow |-> TRUE, LogLevel |-> logLevel]

\* NewClient: the switch over the client type.
NewClientResult(t) == IF t = "Geth" THEN Nil ELSE Error("client type unimplemented", <<>>, "")

\* checkFlag: harness.NewClient(harness.Geth, ...), then the compile switch.
DNewClient ==
  /\ dpc = "NewClient"
  /\ cmd' = NoCmd
  /\ args' = DriverArgs(ParseLogLevel(lvlStr).level)
  /\ IF NewClientResult("Geth") = Nil
     THEN dpc' = (IF skip THEN "Init" ELSE "Compile") /\ dret' = dret
     ELSE DReturn(NewClientResult("Geth"))
  /\ UNCHANGED <<procs, datadir, cwd, built, head, rpcUp, cpc, calls, ctxDone, runningRet>>
  /\ UNCHANGED <<defers, skip, lvlStr, dnum, dout, inprocAll>>

\* Faulty variant: a failed Compile is tried again.
AfterCompile_Retries(e) == IF e = Nil THEN "Init" ELSE "Compile"

\* checkFlag: where it goes after Compile returned e.
AfterCompile(e) == IF e = Nil THEN "Init" ELSE "return"

\* checkFlag: client.Compile
DCompile ==
  /\ dpc = "Compile"
  /\ \E getwdOk \in BOOLEAN, buildOk \in BOOLEAN :
       /\ GethCompile(getwdOk, buildOk)
       /\ dpc' = AfterCompile(CompileResult(getwdOk, buildOk))
       /\ dret' = CompileResult(getwdOk, buildOk)
  /\ UNCHANGED <<defers, skip, lvlStr, dnum, dout, inprocAll, args>>

\* Faulty variant: the driver goes on to Start whatever Init returned.
AfterInit_IgnoresError(e) == "Start"

\* checkFlag: where it goes after Init returned e.
AfterInit(e) == IF e = Nil THEN "Start" ELSE "return"

\* Largest block height the client's import may reach.
MaxHead == 2

\* checkFlag: client.Init
DInit ==
  /\ dpc = "Init"
  /\ \E genOk \in BOOLEAN, impOk \in BOOLEAN, h \in 0 .. MaxHead :
       /\ GethInit(genOk, impOk, h)
       /\ dpc' = AfterInit(InitResult(genOk, impOk))
       /\ dret' = InitResult(genOk, impOk)
  /\ UNCHANGED <<defers, skip, lvlStr, dnum, dout, inprocAll, args>>

\* Faulty variant: Close is not deferred.
DefersAfterStart_None(ds) == ds

\* checkFlag: defer client.Close(), registered once Start has returned nil.
DefersAfterStart(ds) == <<"Close">> \o ds

\* checkFlag: client.Start and the deferred Close.
DStart ==
  /\ dpc = "Start"
  /\ \E spawnOk \in BOOLEAN :
       /\ GethStart(spawnOk)
       /\ IF StartResult(spawnOk) = Nil
          THEN dpc' = "Running" /\ defers' = DefersAfterStart(defers)
          ELSE dpc' = "return" /\ defers' = defers
       /\ dret' = StartResult(spawnOk)
  /\ UNCHANGED <<skip, lvlStr, dnum, dout, inprocAll, args>>

\* checkFlag: context.WithTimeout, defer cancel(), and the call of Running.
DCallRunning ==
  /\ dpc = "Running"
  /\ cpc = "idle"
  /\ ctxDone' = FALSE
  /\ defers' = <<"cancel">> \o defers
  /\ cpc' = "poll"
  /\ dpc' = "inRunning"
  /\ UNCHANGED <<cmd, procs, datadir, cwd, built, head, rpcUp, calls, runningRet>>
  /\ UNCHANGED <<skip, lvlStr, dnum, dret, dout, inprocAll, args>>

\* Faulty variant: the driver goes on to the head query whatever Running returned.
AfterRunning_IgnoresResult(r) == "Dial"

\* checkFlag: where it goes after Running returned r.
AfterRunning(r) == IF r = "true" THEN "Dial" ELSE "return"

\* The error of a failed readiness poll.
Unreachable == Error("unable to connect to client", <<>>, "")

\* checkFlag: the test of what Running returned.
DAfterRunning ==
  /\ dpc = "inRunning"
  /\ cpc = "idle"
  /\ dpc' = AfterRunning(runningRet)
  /\ dret' = IF runningRet = "true" THEN dret ELSE Unreachable
  /\ UNCHANGED <<defers, skip, lvlStr, dnum, dout, clientVars, inprocAll, args>>

\* checkFlag: ethclient.DialContext
DDial ==
  /\ dpc = "Dial"
  /\ \E ok \in BOOLEAN :
       /\ calls' = Append(calls, Call("Dial", ok))
       /\ IF ok THEN dpc' = "BlockNumber" /\ dret' = dret
          ELSE DReturn(Error("dial", <<>>, "http://localhost:8545"))
  /\ UNCHANGED <<cmd, procs, datadir, cwd, built, head, rpcUp, cpc, ctxDone, runningRet>>
  /\ UNCHANGED <<defers, skip, lvlStr, dnum, dout, inprocAll, args>>

\* checkFlag: num != 1
WrongHead(num) == num # 1

\* checkFlag: eth.BlockNumber and the comparison with the expected height.
\* The call is answered only by a serving client and a context not done.
DBlockNumber ==
  /\ dpc = "BlockNumber"
  /\ \E rpcOk \in BOOLEAN :
       LET ok == rpcOk /\ rpcUp # 0 /\ ~ctxDone
       IN  /\ calls' = Append(calls, Call("BlockNumber", ok))
           /\ dnum' = IF ok THEN head ELSE dnum
           /\ DReturn(IF ~ok THEN Error("Post http://localhost:8545", <<>>, "")
                      ELSE IF WrongHead(head)
                      THEN Error("chain not loaded correctly", <<>>, "")
                      ELSE Nil)
  /\ UNCHANGED <<cmd, procs, datadir, cwd, built, head, rpcUp, cpc, ctxDone, runningRet>>
  /\ UNCHANGED <<defers, skip, lvlStr, dout, inprocAll, args>>

\* checkFlag returning: the next deferred call runs (cancel, Close or
\* os.RemoveAll("datadir")).
DDeferred ==
  /\ dpc = "return"
  /\ defers # <<>>
  /\ defers' = Tail(defers)
  /\ ctxDone' = IF Head(defers) = "cancel" THEN TRUE ELSE ctxDone
  /\ datadir' = IF Head(defers) = "RemoveAll" THEN "absent" ELSE datadir
  /\ cpc' = IF Head(defers) = "Close" THEN "kill" ELSE cpc
  /\ dpc' = IF Head(defers) = "Close" THEN "inClose" ELSE dpc
  /\ UNCHANGED <<cmd, procs, cwd, built, head, rpcUp, calls, runningRet>>
  /\ UNCHANGED <<skip, lvlStr, dnum, dret, dout, inprocAll, args>>

\* The deferred Close has returned.
DCloseReturned ==
  /\ dpc = "inClose"
  /\ cpc = "idle"
  /\ dpc' = "return"
  /\ UNCHANGED <<defers, skip, lvlStr, dnum, dret, dout, clientVars, inprocAll, args>>

\* checkFlag has returned to main: "Flag captured." or exit(err).
DExit ==
  /\ dpc = "return"
  /\ defers = <<>>
  /\ dpc' = "exit"
  /\ dout' = IF dret = Nil THEN "Flag captured." ELSE "exit 1"
  /\ UNCHANGED <<defers, skip, lvlStr, dnum, dret, clientVars, inprocAll, args>>

\* ------------------------------------------- any caller of the Client interface

\* Most calls made on one client.
MaxCalls == 3
\* Most client processes spawned.
MaxProcs == 2

ApiCompile ==
  /\ dpc = "api" /\ cpc = "idle" /\ Len(calls) < MaxCalls
  /\ \E getwdOk \in BOOLEAN, buildOk \in BOOLEAN : GethCompile(getwdOk, buildOk)
  /\ UNCHANGED <<driverVars, inprocAll, args>>

ApiInit ==
  /\ dpc = "api" /\ cpc = "idle" /\ Len(calls) < MaxCalls
  /\ \E genOk \in BOOLEAN, impOk \in BOOLEAN, h \in 0 .. MaxHead : GethInit(genOk, impOk, h)
  /\ UNCHANGED <<driverVars, inprocAll, args>>

ApiStart ==
  /\ dpc = "api" /\ cpc = "idle" /\ Len(calls) < MaxCalls /\ Len(procs) < MaxProcs
  /\ \E spawnOk \in BOOLEAN : GethStart(spawnOk)
  /\ UNCHANGED <<driverVars, inprocAll, args>>

ApiClose ==
  /\ dpc = "api" /\ cpc = "idle" /\ Len(calls) < MaxCalls
  /\ cpc' = "kill"
  /\ UNCHANGED <<cmd, procs, datadir, cwd, built, head, rpcUp, calls, ctxDone, runningRet>>
  /\ UNCHANGED <<driverVars, inprocAll, args>>

ApiRunning ==
  /\ dpc = "api" /\ cpc = "idle" /\ Len(calls) < MaxCalls
  /\ cpc' = "poll"
  /\ \E done \in BOOLEAN : ctxDone' = done
  /\ UNCHANGED <<cmd, procs, datadir, cwd, built, head, rpcUp, calls, runningRet>>
  /\ UNCHANGED <<driverVars, inprocAll, args>>

\* ------------------------------------------------------------ specification

HarnessIdle ==
  /\ cmd = NoCmd
  /\ args = NoArgs
  /\ procs = <<>>
  /\ datadir = "absent"
  /\ cwd = "challenge"
  /\ built = FALSE
  /\ head = 0
  /\ rpcUp = 0
  /\ cpc = "idle"
  /\ calls = <<>>
  /\ ctxDone = FALSE
  /\ runningRet = "none"
  /\ dpc = "off"
  /\ defers = <<>>
  /\ skip = FALSE
  /\ lvlStr = "info"
  /\ dnum = -1
  /\ dret = Nil
  /\ dout = ""

InprocIdle ==
  /\ stack = "none"
  /\ gen = Genesis(0, 0)
  /\ stream = <<>>
  /\ off = 1
  /\ i = 0
  /\ blocks = <<>>
  /\ chain = NoChain
  /\ backend = FALSE
  /\ imported = -1
  /\ queried = FALSE
  /\ answer = -1
  /\ ret = Nil
  /\ out = ""

\* The fixture generator may run first; then one in-process verifier runs.
Init ==
  /\ genesisFile = Unwritten
  /\ chainFile = Unwritten
  /\ written = <<>>
  /\ chainName = ChainRlp
  /\ first = NoLoad
  /\ variant \in {"A", "B"}
  /\ ipc = "main"
  /\ InprocIdle
  /\ HarnessIdle

Next ==
  \/ ChainmakerMain
  \/ Main
  \/ NodeNew
  \/ LoadGenesis
  \/ OpenChain
  \/ DecodeBlock
  \/ EthNew
  \/ InsertChain
  \/ StackStart
  \/ Console
  \/ Attach
  \/ BlockByNumber

Spec == Init /\ [][Next]_vars

InprocOff ==
  /\ genesisFile = Unwritten
  /\ chainFile = Unwritten
  /\ written = <<>>
  /\ chainName = ChainRlp
  /\ first = NoLoad
  /\ variant = "A"
  /\ ipc = "off"
  /\ InprocIdle

\* One run of the harness driver, with any flags, with or without a built
\* client and a data directory left behind.
InitDriver ==
  /\ InprocOff
  /\ cmd = NoCmd
  /\ args = NoArgs
  /\ procs = <<>>
  /\ datadir \in {"absent", "chain"}
  /\ cwd = "challenge"
  /\ built \in BOOLEAN
  /\ head = 0
  /\ rpcUp = 0
  /\ cpc = "idle"
  /\ calls = <<>>
  /\ ctxDone = FALSE
  /\ runningRet = "none"
  /\ dpc = "ParseLogLevel"
  /\ defers = <<>>
  /\ skip \in BOOLEAN
  /\ lvlStr \in LevelInputs
  /\ dnum = -1
  /\ dret = Nil
  /\ dout = ""

NextDriver ==
  \/ DParseLogLevel
  \/ DMakeDataDir
  \/ DNewClient
  \/ DCompile
  \/ DInit
  \/ DStart
  \/ DCallRunning
  \/ RunningSelect
  \/ RunningDial
  \/ RunningBlockNumber
  \/ DAfterRunning
  \/ DDial
  \/ DBlockNumber
  \/ DDeferred
  \/ CloseKill
  \/ CloseWait
  \/ CloseRemove
  \/ DCloseReturned
  \/ DExit
  \/ ProcStep
  \/ DeadlineFires

SpecDriver == InitDriver /\ [][NextDriver]_vars

\* A client built by newGethClient and used by any caller, in any order.
InitClient ==
  /\ InprocOff
  /\ cmd = NoCmd
  /\ args \in ClientArgs
  /\ procs = <<>>
  /\ datadir \in {"absent", "empty"}
  /\ cwd = "challenge"
  /\ built \in BOOLEAN
  /\ head = 0
  /\ rpcUp = 0
  /\ cpc = "idle"
  /\ calls = <<>>
  /\ ctxDone = FALSE
  /\ runningRet = "none"
  /\ dpc = "api"
  /\ defers = <<>>
  /\ skip = FALSE
  /\ lvlStr = "info"
  /\ dnum = -1
  /\ dret = Nil
  /\ dout = ""

NextClient ==
  \/ ApiCompile
  \/ ApiInit
  \/ ApiStart
  \/ ApiClose
  \/ ApiRunning
  \/ RunningSelect
  \/ RunningDial
  \/ RunningBlockNumber
  \/ CloseKill
  \/ CloseWait
  \/ CloseRemove
  \/ ProcStep
  \/ DeadlineFires

SpecClient == InitClient /\ [][NextClient]_vars

\* The chain file names tried, none of them ending in ".gz".
PlainNames == {ChainRlp, <<"chain", ".gz", ".rlp">>}

\* blocksFromFile on any chain file under a plain name, then on the gzip
\* file of the same stream.
InitLoad ==
  /\ HarnessIdle
  /\ genesisFile = Unwritten
  /\ chainFile \in {[written |-> TRUE, data |-> s] : s \in Streams}
  /\ written = <<>>
  /\ chainName \in PlainNames
  /\ first = NoLoad
  /\ variant = "A"
  /\ ipc = "open"
  /\ stack = "created"
  /\ gen \in {Genesis(0, d) : d \in GenFieldVals}
  /\ stream = <<>>
  /\ off = 1
  /\ i = 0
  /\ blocks = <<>>
  /\ chain = NoChain
  /\ backend = FALSE
  /\ imported = -1
  /\ queried = FALSE
  /\ answer = -1
  /\ ret = Nil
  /\ out = ""

NextLoad ==
  \/ OpenChain
  \/ DecodeBlock
  \/ LoadCompressed

SpecLoad == InitLoad /\ [][NextLoad]_vars

\* ------------------------------------------------------- fixture loading

\* loadChain returned an error to runGeth.
LoadFailed == stack = "closed" /\ ~chain.ok

RECURSIVE ParseFrom(_, _)
\* The blocks that decode from offset o of s on, up to the first decode
\* failure or the end of the stream.
ParseFrom(s, o) ==
  LET r == Decode(s, o)
  IN  IF r.res = "ok" THEN <<r.block>> \o ParseFrom(s, r.next) ELSE <<>>

\* The one-based positions k of blocks of s that do not carry number k
\* (zero-based index k-1, expected number k).
Offending(s) == {k \in 1 .. Len(ParseFrom(s, 1)) : ParseFrom(s, 1)[k].number # k}
FirstOffending(s) == CHOOSE k \in Offending(s) : \A j \in Offending(s) : k <= j

\* blocksFromFile has returned (the stream was opened and the loop left).
LoopLeft == blocks # <<>> /\ ipc # "decode"

\* C1: whenever loadChain returned a chain without error, the block at
\* index k >= 1 of the returned list reports block number k.
C1_LoadedNumbersAreIndices ==
  chain.ok => \A k \in 2 .. Len(chain.blocks) : NumberU64(chain.blocks[k]) = k - 1

\* A chain with two decoded blocks was returned.
C1_Witness == chain.ok /\ Len(chain.blocks) = 3

\* C2, as amended: if some decoded block does not carry its position + 1,
\* loading fails with the wrong-number error that carries the first
\* offending zero-based index and the number found there (the expected
\* number is not part of the error), and no chain is returned.
C2_FirstOffendingReported ==
  (LoopLeft /\ Offending(stream) # {}) =>
    LET k == FirstOffending(stream)
    IN  /\ LoadFailed
        /\ chain.blocks = <<>>
        /\ ret = Error("block at index %d has wrong number %d",
                        <<k - 1, ParseFrom(stream, 1)[k].number>>, "")
        /\ out = "exit 1"

\* The second block of the stream is the first offending one, and loading
\* has failed.
C2_Witness ==
  /\ LoopLeft
  /\ Offending(stream) # {}
  /\ FirstOffending(stream) = 2
  /\ LoadFailed

\* C2, as claimed: the error identifies the index, the expected and the
\* actual number.
C2_ExpectedReported ==
  (LoopLeft /\ Offending(stream) # {}) =>
    LET k == FirstOffending(stream)
    IN  /\ LoadFailed
        /\ ret.args = <<k - 1, k, ParseFrom(stream, 1)[k].number>>

\* C3, as claimed: the files chainmaker wrote are accepted by loadChain and
\* the loaded chain carries the identifiers of the written list, in order.
C3_RoundTrip ==
  (written # <<>> /\ (chain.ok \/ LoadFailed)) =>
    /\ chain.ok
    /\ [k \in 1 .. Len(chain.blocks) |-> chain.blocks[k].id]
         = [k \in 1 .. Len(written) |-> written[k].id]

\* C8, as claimed: main reports success exactly when the head query was
\* issued and returned the expected hash.
C8_SuccessIffHeadMatches ==
  ipc = "exit" => ((out = "Flag captured.") <=> (queried /\ answer = ExpectedHash))

\* C9, as claimed: when fixture loading fails no node was created.
C9_NoNodeCreated ==
  LoadFailed => (stack = "none" /\ ~backend /\ imported = -1 /\ chain.blocks = <<>>)

\* C9, as amended: as long as loadChain has not returned a chain, no backend
\* is created, nothing is imported, the node is not started and no query is
\* made; when loading fails nothing of the chain is handed on, the node
\* stack created before loading is closed and the run ends with an error.
C9_NothingDownstreamOfFailedLoad ==
  /\ ~chain.ok =>
       (stack \in {"none", "created", "closed"} /\ ~backend /\ imported = -1 /\ ~queried)
  /\ ~chain.ok => chain.blocks = <<>>
  /\ LoadFailed => (ipc = "exit" /\ out = "exit 1" /\ ret # Nil)

\* Loading failed at the second block, after one block had been decoded.
C9_Witness == LoadFailed /\ Len(blocks) = 2 /\ ret.args # <<>>

\* ------------------------------------------------------ client lifecycle

HasCall(op) == \E k \in 1 .. Len(calls) : calls[k].op = op
HasOk(op) == \E k \in 1 .. Len(calls) : calls[k] = Call(op, TRUE)

\* The lifecycle stages of a driver run, in the order the driver names them.
StageOps == {"Compile", "Init", "Start", "Running", "BlockNumber"}
StageRank(op) ==
  CASE op = "Compile" -> 1
    [] op = "Init" -> 2
    [] op = "Start" -> 3
    [] op = "Running" -> 4
    [] op = "BlockNumber" -> 5
IsStage(c) == c.op \in StageOps
Stages == SelectSeq(calls, IsStage)

\* C4, as claimed: Close never panics, whatever was called before it, and
\* when it has returned no data directory is left.
C4_CloseSafeEverywhere ==
  /\ cpc # "panic"
  /\ (cpc = "idle" /\ calls # <<>> /\ calls[Len(calls)].op = "Close") => datadir = "absent"

\* C5, as claimed: when a lifecycle stage of the driver run failed, Close
\* has been executed by the time checkFlag has returned.
C5_CloseOnAnyStageFailure ==
  (dpc = "exit" /\ dret # Nil /\ Stages # <<>>) => HasCall("Close")

\* C5, as amended: by the time checkFlag has returned, Close has been
\* executed exactly when Start had returned success; so it is executed when
\* the readiness poll or the RPC assertion fails, and it is not executed
\* when Compile, Init or Start fails.
C5_CloseIffStarted ==
  dpc = "exit" => (HasCall("Close") <=> HasOk("Start"))

\* The readiness poll failed and Close was executed before the return.
C5_Witness == dpc = "exit" /\ dret = Unreachable /\ HasCall("Close")

\* C6: on every exit path of checkFlag taken after the data directory was
\* created, at the return the data directory is gone and every client
\* process that was spawned has been killed and waited for.
C6_TeardownOnEveryExit ==
  (dpc = "exit" /\ HasOk("makeDataDir")) =>
    (datadir = "absent" /\ \A p \in DOMAIN procs : procs[p] = "reaped")

\* The assertion failed on a client that had been spawned.
C6_Witness ==
  /\ dpc = "exit"
  /\ dret = Error("chain not loaded correctly", <<>>, "")
  /\ procs # <<>>
  /\ datadir = "absent"

\* C7: the stages of a driver run occur in the order Compile (never invoked
\* when skipped), Init, Start, readiness poll, head query, each entered only
\* after the one before returned success.
C7_StagesInOrder ==
  \A k \in 1 .. Len(Stages) :
    /\ k = 1 => Stages[1].op = (IF skip THEN "Init" ELSE "Compile")
    /\ k > 1 => /\ Stages[k - 1].ok
                /\ StageRank(Stages[k].op) = StageRank(Stages[k - 1].op) + 1

\* All five stages ran.
C7_Witness == dpc = "exit" /\ Len(Stages) = 5

\* C10: when the readiness poll timed out the driver returns the
\* unreachable error, which no other path returns, and neither dials nor
\* issues the head query.
C10_TimeoutIsUnreachable ==
  /\ runningRet = "false" => (~HasCall("Dial") /\ ~HasCall("BlockNumber") /\ dnum = -1)
  /\ dpc = "exit" => (runningRet = "false" <=> dret = Unreachable)

\* The driver returned after a readiness poll that timed out.
C10_Witness == dpc = "exit" /\ runningRet = "false" /\ dout = "exit 1"

\* --------------------------------------------------------- readiness poll

\* The driver run with the scheduling the code gives the poll: the loop of
\* Running keeps executing its statements, and the timer of
\* context.WithTimeout fires when its time has passed.
SpecDriverFair ==
  /\ SpecDriver
  /\ WF_vars(RunningSelect)
  /\ WF_vars(RunningDial)
  /\ WF_vars(RunningBlockNumber)
  /\ WF_vars(DeadlineFires)

\* The step in which Running returns r.
RunningReturns(r) == InRunning /\ cpc' = "idle" /\ runningRet' = r

\* C11: Running returns false only when the context is already done, never
\* earlier (in particular when the client never answers); and it returns
\* true only from a block-height call, made after a dial that succeeded,
\* that a serving client answered.
C11_TimeoutBoundary ==
  [][/\ RunningReturns("false") => ctxDone
     /\ RunningReturns("true") => (cpc = "call" /\ rpcUp # 0 /\ ~ctxDone)]_vars

\* A started client never answered, and Running has returned false after
\* the deadline fired.
C11_Witness ==
  /\ cpc = "idle"
  /\ calls # <<>>
  /\ calls[Len(calls)] = Call("Running", FALSE)
  /\ procs # <<>>
  /\ rpcUp = 0
  /\ ctxDone

\* C12: under a context whose deadline fires, every call of Running
\* returns; and once the context is done the head of the loop starts no
\* further attempt (neither a dial nor a block-height call follows it) and
\* whatever Running returns from then on is false.
C12_PollTerminates ==
  /\ InRunning ~> (cpc = "idle" /\ runningRet # "none")
  /\ [][/\ (ctxDone /\ cpc = "poll") => cpc' \notin {"dial", "call"}
        /\ (ctxDone /\ InRunning /\ cpc' = "idle") => runningRet' = "false"]_vars

\* The driver's poll has returned false under a done context, after at
\* least one attempt was made on a spawned client.
C12_Witness ==
  /\ dpc = "inRunning"
  /\ cpc = "idle"
  /\ runningRet = "false"
  /\ ctxDone
  /\ procs # <<>>

\* ------------------------------------------------------ error propagation

\* C13, as claimed: checkFlag returns the error of the stage that failed:
\* a run that ended on a started node without a head query (the attach
\* failed) returned an error, and a head query that failed ends the run
\* with the error the query returned.
C13_ErrorsReturnedUnchanged ==
  ipc = "exit" =>
    /\ (stack = "started" /\ ~queried) => ret # Nil
    /\ (queried /\ answer = -1) => ret = HeadRPCError

\* InsertChain returned an error: it stopped before the last block of the list.
ImportFailed == imported >= 0 /\ imported < Len(chain.blocks) - 1

\* C14, as claimed: when the chain import fails, initialization returns an
\* error and the client is not started.
C14_FailedImportAborts ==
  ImportFailed => (stack # "started" /\ ~queried /\ (ipc = "exit" => ret # Nil))

\* ------------------------------------------------------- failed start

\* The step in which the driver's call of Start fails.
DriverStartFails == dpc = "Start" /\ calls' = Append(calls, Call("Start", FALSE))

\* C15: when the driver's Start fails to spawn the process, it returns an
\* error and the controller is as Init left it: it owns no process, no
\* process was left behind, the data directory, the build, the imported head
\* and the working directory are untouched, Close behaves as before, and no
\* Close is deferred.
C15_FailedStartChangesNothing ==
  [][DriverStartFails =>
       /\ dret' # Nil
       /\ dpc' = "return"
       /\ cmd.process = 0 /\ cmd'.process = 0
       /\ KillPanics(cmd') = KillPanics(cmd)
       /\ UNCHANGED <<procs, datadir, cwd, built, head, rpcUp, defers>>]_vars

\* The driver has returned the error of a Start that failed after a
\* successful Init.
C15_Witness ==
  /\ dpc = "exit"
  /\ HasOk("Init")
  /\ calls[Len(calls)] = Call("Start", FALSE)
  /\ dret = StartResult(FALSE)

\* ------------------------------------------------------------ after Close

\* A call of Compile, Init or Start made by a caller of the interface.
StageCallStep == dpc = "api" /\ cpc = "idle" /\ cpc' = "idle" /\ calls' # calls

\* C16, as claimed: once Close has returned, no call of Compile, Init or
\* Start spawns or records a process or populates the data directory.
C16_ClosedIsTerminal ==
  [][(HasCall("Close") /\ StageCallStep) =>
       (Len(procs') = Len(procs) /\ cmd' = cmd /\ datadir' = datadir)]_vars

\* ----------------------------------------------------- decoding the stream

\* Length of one encoded block.
EncLen == Len(EncodeRLP(Block(0, 0)))

\* What is left of s behind its leading well-formed blocks.
Rest(s) == SubSeq(s, Len(ParseFrom(s, 1)) * EncLen + 1, Len(s))

\* C17: when the stream, behind n well-formed and rightly numbered blocks,
\* goes on with anything that is not a whole block (a truncated block
\* included), loading fails with the decode error that carries the
\* zero-based index n and the decoder's cause (unexpected EOF for a block cut
\* short), and returns no chain; loading
\* succeeds only on a stream that is exactly the encoding of the blocks
\* returned, so only when the stream ends at a block boundary.
C17_DecodeFailureReported ==
  /\ (LoopLeft /\ Offending(stream) = {} /\ Rest(stream) # <<>>) =>
       /\ LoadFailed
       /\ chain.blocks = <<>>
       /\ ret.fmt = "at block index %d: %v"
       /\ ret.args = <<Len(ParseFrom(stream, 1))>>
       /\ ret.cause \in {"unexpected EOF", "rlp: expected input list for types.extblock"}
       /\ (Rest(stream)[1] = ListHead) <=> (ret.cause = "unexpected EOF")
  /\ chain.ok => stream = WriteChainData(Tail(chain.blocks))

\* The stream was cut in the middle of its second block, and loading failed
\* with the error for index 1.
C17_Witness ==
  /\ LoadFailed
  /\ Len(stream) = 2 * EncLen - 1
  /\ stream[EncLen + 1] = ListHead
  /\ ret = Error("at block index %d: %v", <<1>>, "unexpected EOF")

\* ------------------------------------------------------- the loaded chain

\* C18: a chain returned by loadChain is the genesis block of the genesis
\* that was read, followed by the blocks decoded from the stream, in stream
\* order: its length is the number of decoded blocks + 1, and an empty chain
\* file gives the chain of the genesis block alone.
C18_ChainIsGenesisThenDecoded ==
  chain.ok =>
    /\ Len(chain.blocks) = Len(ParseFrom(stream, 1)) + 1
    /\ chain.blocks[1] = ToBlock(gen)
    /\ genesisFile.written => chain.blocks[1] = ToBlock(Unmarshal(genesisFile.data))
    /\ \A k \in 1 .. Len(ParseFrom(stream, 1)) : chain.blocks[k + 1] = ParseFrom(stream, 1)[k]
    /\ stream = <<>> => chain.blocks = <<ToBlock(gen)>>

\* A chain of the genesis block and two decoded blocks was returned.
C18_Witness ==
  /\ chain.ok
  /\ Len(ParseFrom(stream, 1)) = 2
  /\ chain.blocks[1].id # chain.blocks[2].id

\* ---------------------------------------------------------- order of Close

\* C19: Close kills, then waits, then removes the data directory: its
\* statements follow each other in that order, the data directory is not
\* removed by the first two, and when the removal is reached and executed
\* the process the client owns has been waited for, so it is not running.
C19_KillWaitRemove ==
  [][/\ cpc = "kill" => cpc' \in {"kill", "wait", "panic"}
     /\ cpc = "wait" => cpc' \in {"wait", "remove"}
     /\ cpc = "remove" => cpc' \in {"remove", "idle"}
     /\ cpc' = "remove" => cpc \in {"wait", "remove"}
     /\ (cpc \in {"kill", "wait"} /\ datadir # "absent") => datadir' # "absent"
     /\ cpc' = "remove" => procs'[cmd'.process] = "reaped"
     /\ (cpc = "remove" /\ cpc' = "idle") =>
          (procs[cmd.process] = "reaped" /\ datadir' = "absent")]_vars

\* Close is about to remove a data directory that holds data, after the
\* owned process was killed and waited for.
C19_Witness ==
  /\ cpc = "remove"
  /\ datadir \in {"genesis", "chain"}
  /\ procs[cmd.process] = "reaped"

\* --------------------------------------------------------------- no retry

\* How often op was invoked.
Invocations(op) == Cardinality({k \in 1 .. Len(calls) : calls[k].op = op})

\* The operations of a driver run that are not to be repeated.
OnceOps == {"Compile", "Init", "geth init", "geth import", "Start"}

\* C20: in one driver run Compile, the genesis-import command, the
\* chain-import command and Start (and Init, which runs the two commands)
\* are each invoked at most once, whatever they return; a failure of any of
\* them ends the run instead of repeating it.
C20_StagesInvokedOnce ==
  /\ \A op \in OnceOps : Invocations(op) <= 1
  /\ \A k \in 1 .. Len(calls) :
       (calls[k].op \in OnceOps /\ ~calls[k].ok) =>
         \A j \in k + 1 .. Len(calls) : calls[j].op \notin OnceOps \ {"Init"}

\* A run in which each of them was invoked once and the readiness poll,
\* after going round its loop, timed out.
C20_Witness ==
  /\ dpc = "exit"
  /\ \A op \in OnceOps : Invocations(op) = 1
  /\ calls[Len(calls)].op = "Close"
  /\ runningRet = "false"

\* ------------------------------------------------------------ compression

\* Both loads have returned.
BothLoaded == first.done /\ (chain.ok \/ LoadFailed)

\* C21: for every block stream, loading its gzip file under a name that
\* ends in ".gz" returns what loading the stream itself under the name
\* without the suffix returned: the same block list, or the same error.
C21_CompressionTransparent ==
  BothLoaded => (chainName[Len(chainName)] = ".gz" /\ Loaded = first)

\* Both loads returned the genesis block and two decoded blocks.
C21_Witness ==
  /\ BothLoaded
  /\ chain.ok
  /\ Len(chain.blocks) = 3
  /\ chainFile.data # stream

\* ------------------------------------------------- Start does not wait

\* The step in which Start returns ok.
StartReturns(ok) == calls' = Append(calls, Call("Start", ok))

\* C22: Start returns with the step that spawns the process (or fails to):
\* at its return the spawned process is running, it has neither exited nor
\* been waited for, and it is not answering on the RPC port; whether it
\* ever does is of no account to the return.
C22_StartDoesNotWait ==
  [][/\ StartReturns(TRUE) =>
          /\ cpc' = "idle"
          /\ Len(procs') = Len(procs) + 1
          /\ cmd'.process = Len(procs')
          /\ procs'[cmd'.process] = "running"
          /\ rpcUp' = rpcUp
          /\ rpcUp' # cmd'.process
     /\ StartReturns(FALSE) => (cpc' = "idle" /\ procs' = procs /\ rpcUp' = rpcUp)]_vars

\* Start has just returned: the process runs and nothing answers on the
\* RPC port.
C22_Witness ==
  /\ calls # <<>>
  /\ calls[Len(calls)] = Call("Start", TRUE)
  /\ cpc = "idle"
  /\ procs[cmd.process] = "running"
  /\ rpcUp = 0

\* -------------------------------------------------------------- log levels

\* The names of the six levels of the LogLevel enumeration, in its order.
LevelNames == <<"none", "error", "warn", "info", "debug", "trace">>

\* The error of a level name that is not accepted.
UnknownLevel(s) == Error("unknown log level: %s", <<>>, s)

\* C23, as claimed: ParseLogLevel maps the six level names to 0..5 in
\* order and rejects every other string; the driver goes on exactly with
\* the six names, and on a rejected name returns the error with no data
\* directory made or removed and no client stage run.
C23_SixLevelNames ==
  /\ \A k \in 1 .. Len(LevelNames) :
       ParseLogLevel(LevelNames[k]) = [ok |-> TRUE, level |-> k - 1]
  /\ \A n \in LevelInputs :
       (\A k \in 1 .. Len(LevelNames) : n # LevelNames[k]) => ~ParseLogLevel(n).ok
  /\ dpc # "ParseLogLevel" =>
       ((\E k \in 1 .. Len(LevelNames) : lvlStr = LevelNames[k]) <=> dret # UnknownLevel(lvlStr))
  /\ dret = UnknownLevel(lvlStr) => (calls = <<>> /\ defers = <<>> /\ procs = <<>>)

\* ---------------------------------------------------------------- --fakepow

IsFakepow(o) == o = "--fakepow"
NotFakepow(o) == o # "--fakepow"

\* The argument lists handed to the client binary so far: those of the
\* geth init and geth import commands and that of the command of Start.
ClientArgvs ==
  {calls[k].args : k \in {j \in 1 .. Len(calls) : calls[j].op \in {"geth init", "geth import"}}}
    \cup (IF cmd.set THEN {cmd.args} ELSE {})

\* C24: with FakePow configured every client invocation (geth init, geth
\* import, start) gets "--fakepow" as its first argument, once, followed by
\* its other options in their order; without FakePow it gets its options
\* as they are, and "--fakepow" is not among them.
C24_FakepowFirst ==
  /\ \A argv \in ClientArgvs :
       /\ args.FakePow => (IsFakepow(argv[1]) /\ Len(SelectSeq(argv, IsFakepow)) = 1)
       /\ ~args.FakePow => SelectSeq(argv, IsFakepow) = <<>>
  /\ \A k \in 1 .. Len(calls) :
       /\ calls[k].op = "geth init" => SelectSeq(calls[k].args, NotFakepow) = InitOptions(args)
       /\ calls[k].op = "geth import" => SelectSeq(calls[k].args, NotFakepow) = ImportOptions(args)
  /\ cmd.set => SelectSeq(cmd.args, NotFakepow) = StartOptions(args)

\* With FakePow configured, all three client invocations were made.
C24_Witness ==
  /\ args.FakePow
  /\ Cardinality(ClientArgvs) = 3
  /\ HasOk("Init")
  /\ HasOk("Start")

\* ------------------------------------------------------- owned processes

\* Close was the last call made and has returned.
CloseReturned == calls # <<>> /\ calls[Len(calls)].op = "Close" /\ cpc = "idle"

\* C25, as claimed: the controller has one handle and so owns at most one
\* process, and when Close has returned no process that the controller
\* started is still running.
C25_NothingRunsAfterClose ==
  /\ cmd.process \in 0 .. Len(procs)
  /\ CloseReturned => \A p \in DOMAIN procs : procs[p] # "running"

\* ------------------------------------------------------ working directory

\* The step in which Compile returns.
CompileReturns == calls' # calls /\ calls'[Len(calls')].op = "Compile"

\* C26: on every return of Compile (os.Getwd failed, the build failed, the
\* build succeeded) the working directory is the one before the call,
\* although the build ran in the project directory; so it is the directory
\* the harness started in whenever a later stage resolves a relative path.
C26_CompileRestoresCwd ==
  [][/\ CompileReturns => cwd' = cwd
     /\ cwd' = "challenge"]_vars

\* Compile has returned the error of a build that ran in the project
\* directory, and the working directory is the one before the call.
C26_Witness ==
  /\ Len(calls) >= 2
  /\ calls[Len(calls)] = Call("Compile", FALSE)
  /\ calls[Len(calls) - 1] = GoRun(FALSE, "go-ethereum")
  /\ cwd = "challenge"

\* ------------------------------------------------------ what runGeth returns

\* runGeth is still executing.
InRunGeth == ipc \in {"node.New", "loadGenesis", "open", "decode", "eth.New", "InsertChain",
                      "stack.Start"}

\* runGeth has returned the node: checkFlag is using it or has used it.
NodeReturned == ipc \in {"console", "Attach", "BlockByNumber"} \/ (ipc = "exit" /\ stack = "started")

\* C27: runGeth returns the node only with the node started, and then
\* with no error; when it has returned after the stack was created without
\* returning the node, it has returned an error and the stack is closed; an
\* open stack that was not started exists only while runGeth executes (or
\* when eth.New's arguments made it panic, which is no return).
C27_NodeOrErrorStackClosed ==
  /\ ipc \in {"console", "Attach", "BlockByNumber"} => (stack = "started" /\ ret = Nil)
  /\ stack = "started" => (NodeReturned /\ backend /\ chain.ok)
  /\ stack = "created" => (InRunGeth \/ out = "panic")
  /\ (ipc = "exit" /\ stack = "closed") => (ret # Nil /\ out = "exit 1" /\ ~queried)

\* runGeth returned the error of a failed start, after backend and import,
\* with the stack closed.
C27_Witness ==
  /\ ipc = "exit"
  /\ stack = "closed"
  /\ backend
  /\ imported >= 0
  /\ ret = Error("stack.Start", <<>>, "")

====
